---- MODULE Spec2Model ----
(***************************************************************************)
(* Model of the TrustbridgeContract escrow registry                        *)
(* (src/contracts/trustbridge_contract/trustbridge_escrow.rs).             *)
(*                                                                         *)
(* One action per message of the contract; each action is one whole        *)
(* transaction: the host runs messages one at a time, and a message that   *)
(* traps is rolled back by the host together with the value attached to    *)
(* it.  The ledger (env().transfer) is the host's balance table; it may    *)
(* refuse a transfer for reasons of its own, and it always refuses one     *)
(* that the registry's balance does not cover.                             *)
(*                                                                         *)
(* next_escrow_id is a u32.  The contract is built with overflow checks    *)
(* (debug/test builds and the contract build profile), so `+= 1` at the    *)
(* largest value panics and the call is rolled back.  The width is scaled  *)
(* down: IdMax stands for u32::MAX.                                        *)
(*                                                                         *)
(* Each message is a function from the state it runs in and its inputs to  *)
(* what it gives back: result, the state it leaves, the ledger calls it    *)
(* made, the events it emitted, the value it returned.  The action of a    *)
(* message commits the state the function leaves.                          *)
(***************************************************************************)
EXTENDS Integers, Sequences, FiniteSets, TLC

\* ---- bounds ----
\* the largest value of the identifier type (u32::MAX, scaled down)
IdMax == 2
\* funds every user account holds when the registry is constructed
InitBalance == 1
MaxDepth == 2

\* ---- identities ----
Users == {"alice", "bob"}
\* the account that instantiates the contract (the accounts are interchangeable)
Deployer == "alice"
Registry == "registry"
Accounts == Users \cup {Registry}
Ids == 0..IdMax
\* the values a call can carry: nobody holds more than all the funds there are
Amounts == 0..(InitBalance * Cardinality(Users))

VARIABLES
    escrows,          \* Mapping<u32, EscrowDetails>: a function on the stored keys
    next_escrow_id,   \* u32
    admin,            \* AccountId
    balance,          \* the ledger: account -> funds
    creates,          \* number of create_escrow calls that returned Ok
    deposited,        \* total value attached to committed create_escrow calls
    paid,             \* per identifier: total value transferred out for it
    succ,             \* per identifier: number of release_funds calls that returned Ok
    emitted,          \* the event sink, per identifier: the amounts carried by its
                      \* EscrowCreated events and by its FundsReleased events, in order
    stack             \* the release_funds calls in progress, innermost last (empty
                      \* whenever calls are taken as single steps)

vars == <<escrows, next_escrow_id, admin, balance, creates, deposited, paid, succ,
          emitted, stack>>

\* the storage of the contract and the ledger, as one value
State(e, n, ad, bal) ==
    [escrows |-> e, next_escrow_id |-> n, admin |-> ad, balance |-> bal]

\* the state the next call runs in
Now == State(escrows, next_escrow_id, admin, balance)

\* ---- EscrowDetails ----
EscrowDetails(amount, owner, beneficiary, arbiter, is_active) ==
    [amount |-> amount, owner |-> owner, beneficiary |-> beneficiary,
     arbiter |-> arbiter, is_active |-> is_active]

\* ---- events ----
EscrowCreated_AfterIncrement(escrow_id, amount) ==
    [type |-> "EscrowCreated", escrow_id |-> escrow_id + 1, amount |-> amount]

EscrowCreated(escrow_id, amount) ==
    [type |-> "EscrowCreated", escrow_id |-> escrow_id, amount |-> amount]

FundsReleased(escrow_id, amount) ==
    [type |-> "FundsReleased", escrow_id |-> escrow_id, amount |-> amount]

\* ---- Mapping ----
\* Mapping::get: Option as a sequence of length 0 (None) or 1 (Some)
MappingGet(m, k) == IF k \in DOMAIN m THEN <<m[k]>> ELSE <<>>

\* Mapping::insert: stores v under k, replacing what was there
MappingInsert_KeepsOld(m, k, v) ==
    IF k \in DOMAIN m THEN m ELSE [x \in (DOMAIN m) \cup {k} |-> IF x = k THEN v ELSE m[x]]

MappingInsert(m, k, v) ==
    [x \in (DOMAIN m) \cup {k} |-> IF x = k THEN v ELSE m[x]]

\* ---- the ledger ----
\* env().transfer(to, amount) out of the registry's own account, given the
\* ledger's answer: a refused transfer moves nothing
LedgerTransfer(bal, to, amount, ok) ==
    [a \in DOMAIN bal |->
        IF ~ok THEN bal[a]
        ELSE IF a = to THEN bal[a] + amount
        ELSE IF a = Registry THEN bal[a] - amount
        ELSE bal[a]]

LedgerAttach_NotCustodied(bal, from, amount) ==
    [a \in DOMAIN bal |-> IF a = from THEN bal[a] - amount ELSE bal[a]]

\* the host moving the value attached to a payable call into the registry
LedgerAttach(bal, from, amount) ==
    [a \in DOMAIN bal |->
        IF a = from THEN bal[a] - amount
        ELSE IF a = Registry THEN bal[a] + amount
        ELSE bal[a]]

\* the answers the ledger can give to a transfer of amount
LedgerOutcomes(bal, amount) ==
    IF bal[Registry] >= amount THEN {TRUE, FALSE} ELSE {FALSE}

\* one ledger call: the destination, the amount and the ledger's answer
LedgerCall(to, amount, ok) == [to |-> to, amount |-> amount, ok |-> ok]

\* ---- what a call gives back ----
\* result: "Ok", an Error, or "Trapped" for a panic; st: the state it leaves;
\* xfers: its ledger calls; evs: its events; ret: the Option it returns
Outcome(result, st, xfers, evs, ret) ==
    [result |-> result, st |-> st, xfers |-> xfers, evs |-> evs, ret |-> ret]

\* ---- construction ----
Init ==
    /\ escrows = <<>>
    /\ next_escrow_id = 0
    /\ admin = Deployer
    /\ balance = [a \in Accounts |-> IF a = Registry THEN 0 ELSE InitBalance]
    /\ creates = 0
    /\ deposited = 0
    /\ paid = [i \in Ids |-> 0]
    /\ succ = [i \in Ids |-> 0]
    /\ emitted = [i \in Ids |-> [created |-> <<>>, released |-> <<>>]]
    /\ stack = <<>>

\* ---- create_escrow ----
CounterOverflows_Unchecked(n) == FALSE

\* next_escrow_id += 1 with overflow checks: TRUE when the addition panics
CounterOverflows(n) == n + 1 > IdMax

U32Inc_Stuck(n) == n

\* the u32 sum n + 1
U32Inc(n) == (n + 1) % (IdMax + 1)

NewEscrow_Swapped(caller, beneficiary, arbiter, amount) ==
    EscrowDetails(amount, caller, arbiter, beneficiary, TRUE)

\* lines 71-77
NewEscrow(caller, beneficiary, arbiter, amount) ==
    EscrowDetails(amount, caller, beneficiary, arbiter, TRUE)

\* the message, run in state st by caller with `amount` attached
create_escrow(st, caller, beneficiary, arbiter, amount) ==
    LET escrow_id == st.next_escrow_id
        escrow == NewEscrow(caller, beneficiary, arbiter, amount)
    IN  IF CounterOverflows(st.next_escrow_id)
        THEN \* the panic rolls the whole call back, attached value included
             Outcome("Trapped", st, <<>>, <<>>, <<>>)
        ELSE Outcome("Ok",
                     State(MappingInsert(st.escrows, escrow_id, escrow),
                           U32Inc(st.next_escrow_id),
                           st.admin,
                           LedgerAttach(st.balance, caller, amount)),
                     <<>>,
                     <<EscrowCreated(escrow_id, amount)>>,
                     <<>>)

\* ---- release_funds ----
Authorized_AnyCaller(escrow, caller) == escrow.is_active

Authorized_IgnoresActive(escrow, caller) == caller = escrow.arbiter

Authorized_OwnerToo(escrow, caller) ==
    escrow.is_active /\ (caller = escrow.arbiter \/ caller = escrow.owner)

\* line 90: the call goes on only for the arbiter of an active record
Authorized(escrow, caller) ==
    ~(~escrow.is_active \/ caller /= escrow.arbiter)

ReleaseChecks_NoExistenceError(found, caller) ==
    IF found = <<>> \/ ~Authorized(found[1], caller) THEN "NotAuthorized"
    ELSE "Pass"

ReleaseChecks_SplitsNotActive(found, caller) ==
    IF found = <<>> THEN "EscrowNotFound"
    ELSE IF ~found[1].is_active THEN "EscrowNotActive"
    ELSE IF caller /= found[1].arbiter THEN "NotAuthorized"
    ELSE "Pass"

\* lines 88-92: the checks before the transfer, on the Option read at line 88
ReleaseChecks(found, caller) ==
    IF found = <<>> THEN "EscrowNotFound"
    ELSE IF ~Authorized(found[1], caller) THEN "NotAuthorized"
    ELSE "Pass"

TransferRequest_ToOwner(escrow) == [to |-> escrow.owner, amount |-> escrow.amount]

TransferRequest_Nothing(escrow) == [to |-> escrow.beneficiary, amount |-> 0]

\* line 95: the transfer asked of the ledger
TransferRequest(escrow) == [to |-> escrow.beneficiary, amount |-> escrow.amount]

TransferResult_Ignored(ok) == "Ok"

TransferResult_Inverted(ok) == IF ok THEN "InsufficientFunds" ELSE "Ok"

\* line 96: map_err on the ledger's answer
TransferResult(ok) == IF ok THEN "Ok" ELSE "InsufficientFunds"

Deactivated_Unchanged(escrow) == escrow

Deactivated_ZeroesAmount(escrow) == [escrow EXCEPT !.is_active = FALSE, !.amount = 0]

\* lines 98-99: the clone with is_active cleared
Deactivated(escrow) == [escrow EXCEPT !.is_active = FALSE]

release_funds_AdminOverride(st, caller, escrow_id, ok) ==
    LET found == MappingGet(st.escrows, escrow_id)
        check == ReleaseChecks(found, IF found /= <<>> /\ caller = st.admin
                                     THEN found[1].arbiter ELSE caller)
    IN  IF check /= "Pass" THEN Outcome(check, st, <<>>, <<>>, <<>>)
        ELSE LET escrow == found[1]
                 req == TransferRequest(escrow)
                 xf == <<LedgerCall(req.to, req.amount, ok)>>
             IN  IF TransferResult(ok) /= "Ok"
                 THEN Outcome(TransferResult(ok), st, xf, <<>>, <<>>)
                 ELSE Outcome("Ok",
                         State(MappingInsert(st.escrows, escrow_id, Deactivated(escrow)),
                               st.next_escrow_id,
                               st.admin,
                               LedgerTransfer(st.balance, req.to, req.amount, ok)),
                         xf,
                         <<FundsReleased(escrow_id, escrow.amount)>>,
                         <<>>)

\* the message, run in state st by caller; ok is the ledger's answer to the
\* transfer, should the call get that far
release_funds(st, caller, escrow_id, ok) ==
    LET found == MappingGet(st.escrows, escrow_id)
        check == ReleaseChecks(found, caller)
    IN  IF check /= "Pass" THEN Outcome(check, st, <<>>, <<>>, <<>>)
        ELSE LET escrow == found[1]
                 req == TransferRequest(escrow)
                 xf == <<LedgerCall(req.to, req.amount, ok)>>
             IN  IF TransferResult(ok) /= "Ok"
                 THEN Outcome(TransferResult(ok), st, xf, <<>>, <<>>)
                 ELSE Outcome("Ok",
                         State(MappingInsert(st.escrows, escrow_id, Deactivated(escrow)),
                               st.next_escrow_id,
                               st.admin,
                               LedgerTransfer(st.balance, req.to, req.amount, ok)),
                         xf,
                         <<FundsReleased(escrow_id, escrow.amount)>>,
                         <<>>)

\* ---- get_escrow ----
get_escrow(st, escrow_id) ==
    Outcome("Ok", st, <<>>, <<>>, MappingGet(st.escrows, escrow_id))

get_escrow_by_OwnerOnly(st, caller, escrow_id) ==
    LET r == get_escrow(st, escrow_id) IN
    IF r.ret /= <<>> /\ r.ret[1].owner /= caller
    THEN Outcome("Ok", st, <<>>, <<>>, <<>>) ELSE r

\* the message as the host dispatches it: the caller is in the environment of
\* every call, and lines 111-113 do not read it
get_escrow_by(st, caller, escrow_id) == get_escrow(st, escrow_id)

\* ---- the host ----
\* the ledger can give the answers recorded in the call's ledger calls
Feasible(st, r) ==
    \A k \in 1..Len(r.xfers) :
        r.xfers[k].ok \in LedgerOutcomes(st.balance, r.xfers[k].amount)

\* the value the ledger moved out in the call
MovedBy(r) ==
    IF r.xfers /= <<>> /\ r.xfers[1].ok THEN r.xfers[1].amount ELSE 0

\* emit_event: the sink after taking the events of a call
RECURSIVE Logged(_, _)
Logged(em, evs) ==
    IF evs = <<>> THEN em
    ELSE LET ev == Head(evs) IN
         Logged([em EXCEPT ![ev.escrow_id] =
                    IF ev.type = "EscrowCreated"
                    THEN [@ EXCEPT !.created = Append(@, ev.amount)]
                    ELSE [@ EXCEPT !.released = Append(@, ev.amount)]],
                Tail(evs))

\* the state the call leaves becomes the state
Commit(r) ==
    /\ escrows' = r.st.escrows
    /\ next_escrow_id' = r.st.next_escrow_id
    /\ admin' = r.st.admin
    /\ balance' = r.st.balance

CreateEscrow(caller, beneficiary, arbiter, amount) ==
    /\ amount <= balance[caller]
    /\ LET r == create_escrow(Now, caller, beneficiary, arbiter, amount) IN
       /\ Commit(r)
       /\ creates' = creates + (IF r.result = "Ok" THEN 1 ELSE 0)
       /\ deposited' = deposited + (IF r.result = "Ok" THEN amount ELSE 0)
       /\ emitted' = Logged(emitted, r.evs)
       /\ UNCHANGED <<paid, succ, stack>>

ReleaseFunds(caller, escrow_id) ==
    \E ok \in BOOLEAN :
        LET r == release_funds(Now, caller, escrow_id, ok) IN
        /\ Feasible(Now, r)
        /\ Commit(r)
        /\ paid' = [paid EXCEPT ![escrow_id] = @ + MovedBy(r)]
        /\ succ' = [succ EXCEPT ![escrow_id] = @ + (IF r.result = "Ok" THEN 1 ELSE 0)]
        /\ emitted' = Logged(emitted, r.evs)
        /\ UNCHANGED <<creates, deposited, stack>>

GetEscrow(caller, escrow_id) ==
    /\ Commit(get_escrow_by(Now, caller, escrow_id))
    /\ emitted' = Logged(emitted, get_escrow_by(Now, caller, escrow_id).evs)
    /\ UNCHANGED <<creates, deposited, paid, succ, stack>>

Next ==
    \/ \E caller \in Users, beneficiary \in Users, arbiter \in Users,
          amount \in Amounts :
          CreateEscrow(caller, beneficiary, arbiter, amount)
    \/ \E caller \in Users, escrow_id \in Ids : ReleaseFunds(caller, escrow_id)
    \/ \E caller \in Users, escrow_id \in Ids : GetEscrow(caller, escrow_id)

Spec == Init /\ [][Next]_vars

\* ---- the same registry over a ledger that refuses a transfer only when
\* ---- the registry's balance does not cover it
StrictOutcomes(bal, amount) == {bal[Registry] >= amount}

FeasibleStrict(st, r) ==
    \A k \in 1..Len(r.xfers) :
        r.xfers[k].ok \in StrictOutcomes(st.balance, r.xfers[k].amount)

ReleaseFundsStrict(caller, escrow_id) ==
    \E ok \in BOOLEAN :
        LET r == release_funds(Now, caller, escrow_id, ok) IN
        /\ FeasibleStrict(Now, r)
        /\ Commit(r)
        /\ paid' = [paid EXCEPT ![escrow_id] = @ + MovedBy(r)]
        /\ succ' = [succ EXCEPT ![escrow_id] = @ + (IF r.result = "Ok" THEN 1 ELSE 0)]
        /\ emitted' = Logged(emitted, r.evs)
        /\ UNCHANGED <<creates, deposited, stack>>

NextStrict ==
    \/ \E caller, beneficiary, arbiter \in Users, amount \in Amounts :
          CreateEscrow(caller, beneficiary, arbiter, amount)
    \/ \E caller \in Users, escrow_id \in Ids : ReleaseFundsStrict(caller, escrow_id)
    \/ \E caller \in Users, escrow_id \in Ids : GetEscrow(caller, escrow_id)

SpecStrict == Init /\ [][NextStrict]_vars

\* ======================================================================
\* Helpers of the properties
\* ======================================================================
RECURSIVE SumOver(_, _)
SumOver(S, f) ==
    IF S = {} THEN 0
    ELSE LET x == CHOOSE y \in S : TRUE IN f[x] + SumOver(S \ {x}, f)

\* the amounts of the records that are still active, added up
ActiveSum ==
    SumOver({i \in DOMAIN escrows : escrows[i].is_active},
            [i \in DOMAIN escrows |-> escrows[i].amount])

\* everything the ledger has transferred out for any identifier
PaidSum == SumOver(Ids, paid)

\* the release_funds calls that can happen now: caller, identifier and the
\* ledger's answer, with what each gives back
ReleaseCalls ==
    {q \in [c : Users, i : Ids, ok : BOOLEAN] :
        Feasible(Now, release_funds(Now, q.c, q.i, q.ok))}

Released(q) == release_funds(Now, q.c, q.i, q.ok)

\* the create_escrow calls that can happen now
CreateCalls ==
    {q \in [c : Users, b : Users, a : Users, v : Amounts] : q.v <= balance[q.c]}

Created(q) == create_escrow(Now, q.c, q.b, q.a, q.v)

\* balances after moving amount from the registry to account `to`, written out
MovedOut(bal, to, amount) ==
    [a \in Accounts |->
        bal[a] + (IF a = to THEN amount ELSE 0) - (IF a = Registry THEN amount ELSE 0)]

\* no account but `from` has less than before and the registry has no less
NothingOut(bal, bal2, from) ==
    /\ bal2[Registry] >= bal[Registry]
    /\ \A u \in Users \ {from} : bal2[u] = bal[u]

\* ======================================================================
\* C1: every ledger transfer is made inside a release_funds(id) call run by
\* the arbiter of record id while that record is active, and asks for exactly
\* the record's amount to exactly the record's beneficiary; no other call of
\* release_funds, and no create_escrow or get_escrow, makes a ledger call or
\* takes value out of the registry.
\* ======================================================================
C1_OnlyArbiterReleaseMovesValue ==
    /\ \A q \in ReleaseCalls :
          LET r == Released(q) IN
          IF r.xfers /= <<>>
          THEN /\ Len(r.xfers) = 1
               /\ q.i \in DOMAIN escrows
               /\ escrows[q.i].is_active
               /\ q.c = escrows[q.i].arbiter
               /\ r.xfers[1].to = escrows[q.i].beneficiary
               /\ r.xfers[1].amount = escrows[q.i].amount
               /\ r.st.balance = (IF r.xfers[1].ok
                                  THEN MovedOut(balance, r.xfers[1].to, r.xfers[1].amount)
                                  ELSE balance)
          ELSE r.st.balance = balance
    /\ \A q \in CreateCalls :
          /\ Created(q).xfers = <<>>
          /\ NothingOut(balance, Created(q).st.balance, q.c)
    /\ \A i \in Ids :
          /\ get_escrow(Now, i).xfers = <<>>
          /\ get_escrow(Now, i).st.balance = balance

\* a release has paid a positive amount to a beneficiary who is not the
\* record's arbiter, while another record is still held
C1_Witness ==
    \E i, j \in DOMAIN escrows :
        /\ succ[i] = 1 /\ paid[i] > 0
        /\ escrows[i].beneficiary /= escrows[i].arbiter
        /\ balance[escrows[i].beneficiary] >= paid[i]
        /\ i /= j /\ escrows[j].is_active /\ escrows[j].amount > 0
        /\ balance[Registry] = escrows[j].amount

\* ======================================================================
\* C2: for every identifier at most one release_funds call returns Ok, and
\* the value transferred for it is the record's amount after that call and 0
\* before.
\* ======================================================================
C2_AtMostOneRelease ==
    \A i \in Ids :
        /\ succ[i] <= 1
        /\ i \notin DOMAIN escrows => succ[i] = 0 /\ paid[i] = 0
        /\ i \in DOMAIN escrows =>
              /\ paid[i] = (IF succ[i] = 1 THEN escrows[i].amount ELSE 0)
              /\ paid[i] <= escrows[i].amount

\* one record paid out in full, another one funded and not yet released
C2_Witness ==
    \E i, j \in DOMAIN escrows :
        /\ i /= j
        /\ succ[i] = 1 /\ paid[i] = escrows[i].amount /\ escrows[i].amount > 0
        /\ succ[j] = 0 /\ paid[j] = 0 /\ escrows[j].amount > 0

\* ======================================================================
\* C3: release_funds by anyone but the arbiter on an existing active record
\* returns NotAuthorized, leaves the records and balances as they were and
\* asks the ledger for nothing.
\* ======================================================================
C3_NonArbiterRejected ==
    \A q \in ReleaseCalls :
        (/\ q.i \in DOMAIN escrows
         /\ escrows[q.i].is_active
         /\ q.c /= escrows[q.i].arbiter)
        => LET r == Released(q) IN
           /\ r.result = "NotAuthorized"
           /\ r.xfers = <<>> /\ r.evs = <<>>
           /\ r.st = Now
           /\ r.st.escrows[q.i].is_active

\* the only record is active and funded, its arbiter is not its owner,
\* beneficiary or the admin, and release_funds by that other identity is
\* NotAuthorized
C3_Witness ==
    /\ DOMAIN escrows = {0}
    /\ escrows[0].is_active
    /\ escrows[0].amount > 0
    /\ escrows[0].arbiter /= escrows[0].owner
    /\ escrows[0].owner = escrows[0].beneficiary
    /\ escrows[0].owner = admin
    /\ release_funds(Now, admin, 0, TRUE).result = "NotAuthorized"
    /\ balance[Registry] = escrows[0].amount

\* ======================================================================
\* C4: once a release_funds(id) has returned Ok, every later release_funds(id),
\* whoever calls it, returns NotAuthorized and moves nothing.
\* ======================================================================
C4_SecondReleaseRejected ==
    \A q \in ReleaseCalls :
        succ[q.i] >= 1
        => LET r == Released(q) IN
           /\ r.result = "NotAuthorized"
           /\ r.xfers = <<>>
           /\ r.st = Now

\* every record has been released, a further record was created after the
\* first, and the arbiter's release_funds is NotAuthorized
C4_Witness ==
    /\ next_escrow_id >= 2
    /\ \A i \in DOMAIN escrows : succ[i] = 1
    /\ \E i \in DOMAIN escrows :
          /\ paid[i] > 0
          /\ release_funds(Now, escrows[i].arbiter, i, TRUE).result = "NotAuthorized"

\* ======================================================================
\* C5: release_funds on an identifier without a record returns EscrowNotFound
\* for every caller and changes nothing: records, counter, balances; it emits
\* no event and makes no ledger call.
\* ======================================================================
C5_MissingRecordNotFound ==
    \A q \in ReleaseCalls :
        q.i \notin DOMAIN escrows
        => LET r == Released(q) IN
           /\ r.result = "EscrowNotFound"
           /\ r.evs = <<>> /\ r.xfers = <<>>
           /\ r.st.escrows = escrows
           /\ r.st.next_escrow_id = next_escrow_id
           /\ r.st.balance = balance

\* records exist and value is held, and release_funds on the next, unused
\* identifier is EscrowNotFound
C5_Witness ==
    /\ DOMAIN escrows /= {}
    /\ balance[Registry] > 0
    /\ next_escrow_id \notin DOMAIN escrows
    /\ release_funds(Now, escrows[0].arbiter, next_escrow_id, TRUE).result
          = "EscrowNotFound"

\* ======================================================================
\* C6: when the arbiter calls release_funds on an active record and the
\* ledger refuses the transfer, the call returns InsufficientFunds, the
\* record stays as it was (active), no event is emitted and no value moves;
\* the arbiter's release_funds after it, when the ledger makes the transfer,
\* returns Ok; and in general, as long as no release of a record has
\* succeeded, the arbiter's call gets as far as the ledger.
\* ======================================================================
C6_FailedTransferLeavesRecord ==
    \A c \in Users, i \in DOMAIN escrows :
        /\ (escrows[i].is_active /\ c = escrows[i].arbiter)
           => LET r == release_funds(Now, c, i, FALSE)
                  again == release_funds(r.st, c, i, TRUE)
              IN  /\ r.result = "InsufficientFunds"
                  /\ r.evs = <<>>
                  /\ r.st = Now
                  /\ r.st.escrows[i].is_active
                  /\ Feasible(r.st, again) => again.result = "Ok"
        /\ (succ[i] = 0 /\ c = escrows[i].arbiter)
           => \A ok \in BOOLEAN :
                 /\ release_funds(Now, c, i, ok).xfers /= <<>>
                 /\ release_funds(Now, c, i, ok).result =
                       (IF ok THEN "Ok" ELSE "InsufficientFunds")

\* a funded active record that the registry's balance covers: the ledger can
\* refuse its transfer, and make it afterwards
C6_Witness ==
    \E i \in DOMAIN escrows :
        /\ escrows[i].is_active /\ escrows[i].amount > 0
        /\ balance[Registry] >= escrows[i].amount
        /\ release_funds(Now, escrows[i].arbiter, i, FALSE).result = "InsufficientFunds"
        /\ release_funds(Now, escrows[i].arbiter, i, TRUE).result = "Ok"
        /\ \E j \in DOMAIN escrows : succ[j] = 1

C8_SequentialIdentifiers ==
    /\ DOMAIN escrows = 0..(next_escrow_id - 1)
    /\ \A q \in CreateCalls :
          LET r == Created(q) IN
          r.result = "Ok"
          => /\ creates \notin DOMAIN escrows
             /\ DOMAIN r.st.escrows = DOMAIN escrows \cup {creates}
             /\ get_escrow(r.st, creates).ret =
                   <<[amount |-> q.v, owner |-> q.c, beneficiary |-> q.b,
                      arbiter |-> q.a, is_active |-> TRUE]>>
    /\ \A i \in Ids :
          get_escrow(Now, i).ret = (IF i < creates THEN <<escrows[i]>> ELSE <<>>)

\* two records with different amounts under 0 and 1, both as created, and
\* get_escrow(1) returns the second
C8_Witness ==
    /\ next_escrow_id = 2 /\ creates = 2
    /\ DOMAIN escrows = {0, 1}
    /\ escrows[0].is_active /\ escrows[1].is_active
    /\ escrows[0].amount /= escrows[1].amount
    /\ escrows[1].beneficiary /= escrows[1].arbiter
    /\ get_escrow(Now, 1).ret = <<escrows[1]>>

\* ======================================================================
\* C9: between calls, the amounts of the active records add up to the value
\* attached to create_escrow calls minus the value release_funds has
\* transferred out, which is what the registry holds.
\* ======================================================================
C9_ActiveSumIsCustody ==
    /\ ActiveSum = deposited - PaidSum
    /\ ActiveSum = balance[Registry]

\* one funded record still active and one funded record paid out
C9_Witness ==
    /\ ActiveSum > 0
    /\ PaidSum > 0
    /\ \E i \in DOMAIN escrows : ~escrows[i].is_active /\ escrows[i].amount > 0

\* ======================================================================
\* C10: a record goes NonExistent -> Active -> Released only: it appears
\* active, by a create_escrow; is_active changes only from true to false and
\* only in a release_funds on that identifier that returns Ok; a released
\* record stays released.
\* ======================================================================
C10_Step ==
    /\ \A i \in DOMAIN escrows' \ DOMAIN escrows :
          escrows'[i].is_active /\ creates' = creates + 1
    /\ \A i \in DOMAIN escrows :
          /\ i \in DOMAIN escrows'
          /\ ~escrows[i].is_active => ~escrows'[i].is_active
          /\ escrows'[i].is_active /= escrows[i].is_active
             => /\ escrows[i].is_active /\ ~escrows'[i].is_active
                /\ succ'[i] = succ[i] + 1
                /\ \E c \in Users :
                      /\ release_funds(Now, c, i, TRUE).result = "Ok"
                      /\ ReleaseFunds(c, i)

C10_LifecycleOneWay == [][C10_Step]_vars

\* record 0 is released, and a create_escrow after that has stored record 1
C10_Witness ==
    /\ DOMAIN escrows = {0, 1}
    /\ ~escrows[0].is_active /\ succ[0] = 1
    /\ escrows[1].is_active
    /\ escrows[1].owner = escrows[0].beneficiary
    /\ escrows[1].amount > InitBalance

\* ======================================================================
\* C11: once a record exists, no call removes it or changes its amount,
\* owner, beneficiary or arbiter: create_escrow, get_escrow and a failed
\* release_funds leave every stored record as it is, and a release_funds
\* that returns Ok changes nothing but is_active of the record it names.
\* ======================================================================
SameParties(e1, e2) ==
    /\ e1.amount = e2.amount /\ e1.owner = e2.owner
    /\ e1.beneficiary = e2.beneficiary /\ e1.arbiter = e2.arbiter

C11_RecordsImmutable ==
    /\ \A q \in CreateCalls :
          LET after == Created(q).st.escrows IN
          \A i \in DOMAIN escrows : i \in DOMAIN after /\ after[i] = escrows[i]
    /\ \A c \in Users, i \in Ids :
          get_escrow_by(Now, c, i).st.escrows = escrows
    /\ \A q \in ReleaseCalls :
          LET r == Released(q) IN
          /\ DOMAIN r.st.escrows = DOMAIN escrows
          /\ \A i \in DOMAIN escrows :
                /\ SameParties(r.st.escrows[i], escrows[i])
                /\ r.st.escrows[i] /= escrows[i] => (i = q.i /\ r.result = "Ok")
          /\ r.result /= "Ok" => r.st.escrows = escrows

\* a funded record that was released and still shows the amount paid for it,
\* next to a later record with another arbiter
C11_Witness ==
    /\ next_escrow_id = 2 /\ creates = 2
    /\ succ[0] = 1 /\ ~escrows[0].is_active
    /\ escrows[0].amount = paid[0] /\ paid[0] > 0
    /\ escrows[1].is_active
    /\ escrows[1].arbiter /= escrows[0].arbiter

\* ======================================================================
\* C12: create_escrow succeeds in every reachable state, for every caller,
\* beneficiary, arbiter and attached amount, also when next_escrow_id holds
\* the largest value of its type.
\* ======================================================================
C12_CreateAlwaysSucceeds ==
    \A q \in CreateCalls : Created(q).result = "Ok"

\* ======================================================================
\* C13: next_escrow_id starts at 0 and is the number of create_escrow calls
\* that returned Ok: such a call adds exactly 1 to it, and a create_escrow
\* that does not return Ok, release_funds and get_escrow leave it as it is;
\* it never wraps, and the identifier it holds has no record yet, so no
\* creation is given an identifier already used, also at the largest value.
\* ======================================================================
C13_CounterCountsCreations ==
    /\ next_escrow_id = creates
    /\ next_escrow_id \in 0..IdMax
    /\ next_escrow_id \notin DOMAIN escrows
    /\ \A q \in CreateCalls :
          LET r == Created(q) IN
          /\ r.result = "Ok" => /\ r.st.next_escrow_id = next_escrow_id + 1
                                /\ r.st.next_escrow_id > next_escrow_id
                                /\ r.st.next_escrow_id \notin DOMAIN r.st.escrows
          /\ r.result /= "Ok" => r.st.next_escrow_id = next_escrow_id
    /\ \A q \in ReleaseCalls : Released(q).st.next_escrow_id = next_escrow_id
    /\ \A c \in Users, i \in Ids :
          get_escrow_by(Now, c, i).st.next_escrow_id = next_escrow_id

\* the counter has reached the largest value after as many creations, one of
\* the records has been released, and a further create_escrow does not go
\* through
C13_Witness ==
    /\ next_escrow_id = IdMax /\ creates = IdMax
    /\ \E i \in DOMAIN escrows : succ[i] = 1
    /\ \E q \in CreateCalls : Created(q).result /= "Ok"

\* ======================================================================
\* C14: get_escrow changes no state, emits no event and makes no ledger
\* call; for every caller it returns the stored record when the identifier
\* has one and None otherwise, never an error.
\* ======================================================================
C14_GetEscrowReadOnly ==
    \A c \in Users, i \in Ids :
        LET r == get_escrow_by(Now, c, i) IN
        /\ r.result = "Ok"
        /\ r.st = Now
        /\ r.evs = <<>> /\ r.xfers = <<>>
        /\ r.ret = (IF i \in DOMAIN escrows THEN <<escrows[i]>> ELSE <<>>)
        /\ \A c2 \in Users : get_escrow_by(Now, c2, i).ret = r.ret

\* a released record, all of whose parties are one account, is returned to
\* the other account; the unused identifier gives None
C14_Witness ==
    \E i \in DOMAIN escrows, c \in Users :
        /\ ~escrows[i].is_active
        /\ c /= escrows[i].owner /\ c /= escrows[i].beneficiary /\ c /= escrows[i].arbiter
        /\ get_escrow_by(Now, c, i).ret = <<escrows[i]>>
        /\ get_escrow_by(Now, c, next_escrow_id).ret = <<>>

\* ======================================================================
\* C16: a create_escrow that returns Ok emits exactly one EscrowCreated with
\* the identifier the record is stored under and the attached amount; a
\* release_funds that returns Ok emits exactly one FundsReleased with the
\* identifier and the record's amount; a call that does not return Ok, and
\* get_escrow, emit nothing; so at any time an identifier has at most one
\* FundsReleased, and one only after exactly one EscrowCreated of the same
\* amount.
\* ======================================================================
C16_EventsMirrorState ==
    /\ \A q \in CreateCalls :
          LET r == Created(q) IN
          IF r.result = "Ok"
          THEN /\ r.evs = <<[type |-> "EscrowCreated", escrow_id |-> creates,
                             amount |-> q.v]>>
               /\ r.st.escrows[creates].amount = q.v
               /\ creates \notin DOMAIN escrows
          ELSE r.evs = <<>>
    /\ \A q \in ReleaseCalls :
          LET r == Released(q) IN
          IF r.result = "Ok"
          THEN r.evs = <<[type |-> "FundsReleased", escrow_id |-> q.i,
                          amount |-> escrows[q.i].amount]>>
          ELSE r.evs = <<>>
    /\ \A c \in Users, i \in Ids : get_escrow_by(Now, c, i).evs = <<>>
    /\ \A i \in Ids :
          /\ Len(emitted[i].created) = (IF i < creates THEN 1 ELSE 0)
          /\ Len(emitted[i].released) = succ[i]
          /\ Len(emitted[i].released) <= 1
          /\ i \in DOMAIN escrows => emitted[i].created = <<escrows[i].amount>>
          /\ emitted[i].released /= <<>> => emitted[i].released = emitted[i].created

\* one identifier with its EscrowCreated and its FundsReleased, of the same
\* positive amount, another with its EscrowCreated only, and a further
\* release_funds on the first emits nothing
C16_Witness ==
    \E i, j \in DOMAIN escrows :
        /\ emitted[i].created = emitted[i].released
        /\ emitted[i].released /= <<>> /\ emitted[i].released[1] > 0
        /\ emitted[j].created /= <<>> /\ emitted[j].released = <<>>
        /\ release_funds(Now, escrows[i].arbiter, i, TRUE).evs = <<>>

\* ======================================================================
\* release_funds taken statement by statement. A call in progress is a frame:
\* the identifier, the Option read at line 88, the statement it stands
\* before, the answers of the ledger calls it has made and, once it is over,
\* its result. A further call can begin only while the innermost call is inside
\* its ledger call (the only point where control leaves the contract).
\* ======================================================================
Frame(escrow_id, found, pc, ledger, result) ==
    [escrow_id |-> escrow_id, found |-> found, pc |-> pc, ledger |-> ledger,
     result |-> result]

Top == stack[Len(stack)]

Replace(f) == [stack EXCEPT ![Len(stack)] = f]

\* lines 87-92: the read and the two checks
RfBegin(depth, caller, escrow_id) ==
    /\ Len(stack) < depth
    /\ stack /= <<>> => Top.pc = "write"
    /\ LET found == MappingGet(escrows, escrow_id)
           check == ReleaseChecks(found, caller)
       IN  stack' = Append(stack,
                       IF check = "Pass"
                       THEN Frame(escrow_id, found, "transfer", <<>>, "")
                       ELSE Frame(escrow_id, found, "done", <<>>, check))
    /\ UNCHANGED <<escrows, next_escrow_id, admin, balance, creates, deposited,
                   paid, succ, emitted>>

\* lines 94-96: the ledger call and map_err
RfTransfer ==
    /\ stack /= <<>> /\ Top.pc = "transfer"
    /\ LET req == TransferRequest(Top.found[1]) IN
       \E ok \in LedgerOutcomes(balance, req.amount) :
          /\ balance' = LedgerTransfer(balance, req.to, req.amount, ok)
          /\ paid' = [paid EXCEPT ![Top.escrow_id] = @ + (IF ok THEN req.amount ELSE 0)]
          /\ stack' = Replace(
                IF TransferResult(ok) = "Ok"
                THEN [Top EXCEPT !.pc = "write", !.ledger = Append(@, ok)]
                ELSE [Top EXCEPT !.pc = "done", !.ledger = Append(@, ok),
                                 !.result = TransferResult(ok)])
    /\ UNCHANGED <<escrows, next_escrow_id, admin, creates, deposited, succ, emitted>>

\* lines 98-100: the clone, is_active = false, the insert
RfWrite ==
    /\ stack /= <<>> /\ Top.pc = "write"
    /\ escrows' = MappingInsert(escrows, Top.escrow_id, Deactivated(Top.found[1]))
    /\ stack' = Replace([Top EXCEPT !.pc = "emit"])
    /\ UNCHANGED <<next_escrow_id, admin, balance, creates, deposited, paid, succ,
                   emitted>>

\* lines 102-106: the event and Ok(())
RfEmit ==
    /\ stack /= <<>> /\ Top.pc = "emit"
    /\ emitted' = Logged(emitted, <<FundsReleased(Top.escrow_id, Top.found[1].amount)>>)
    /\ stack' = Replace([Top EXCEPT !.pc = "done", !.result = "Ok"])
    /\ UNCHANGED <<escrows, next_escrow_id, admin, balance, creates, deposited,
                   paid, succ>>

\* the call is over and control goes back to whoever made it
RfReturn ==
    /\ stack /= <<>> /\ Top.pc = "done"
    /\ succ' = [succ EXCEPT ![Top.escrow_id] = @ + (IF Top.result = "Ok" THEN 1 ELSE 0)]
    /\ stack' = SubSeq(stack, 1, Len(stack) - 1)
    /\ UNCHANGED <<escrows, next_escrow_id, admin, balance, creates, deposited,
                   paid, emitted>>

OutsideCalls ==
    /\ stack = <<>>
    /\ \/ \E caller, beneficiary, arbiter \in Users, amount \in Amounts :
             CreateEscrow(caller, beneficiary, arbiter, amount)
       \/ \E caller \in Users, escrow_id \in Ids : GetEscrow(caller, escrow_id)

\* calls one after the other, as the host runs them
NextSteps ==
    \/ OutsideCalls
    \/ \E caller \in Users, escrow_id \in Ids : RfBegin(1, caller, escrow_id)
    \/ RfTransfer
    \/ RfWrite
    \/ RfEmit
    \/ RfReturn

SpecSteps == Init /\ [][NextSteps]_vars

\* a release_funds of the same identifier may begin inside the ledger call
\* of another
RfReenter(caller, escrow_id) ==
    /\ stack /= <<>> => escrow_id = Top.escrow_id
    /\ RfBegin(MaxDepth, caller, escrow_id)

NextReentrant ==
    \/ OutsideCalls
    \/ \E caller \in Users, escrow_id \in Ids : RfReenter(caller, escrow_id)
    \/ RfTransfer
    \/ RfWrite
    \/ RfEmit
    \/ RfReturn

SpecReentrant == Init /\ [][NextReentrant]_vars

\* ======================================================================
\* C17: no call returns EscrowNotActive: a call returns Ok or one of
\* EscrowNotFound, NotAuthorized, InsufficientFunds (create_escrow at the
\* last identifier traps and returns no value at all), and release_funds on
\* an existing inactive record returns NotAuthorized for every caller, the
\* arbiter included.
\* ======================================================================
Results ==
    {Created(q).result : q \in CreateCalls}
        \cup {Released(q).result : q \in ReleaseCalls}
        \cup {get_escrow_by(Now, c, i).result : c \in Users, i \in Ids}

C17_NeverEscrowNotActive ==
    /\ \A q \in CreateCalls : Created(q).result \in {"Ok", "Trapped"}
    /\ \A c \in Users, i \in Ids : get_escrow_by(Now, c, i).result = "Ok"
    /\ \A q \in ReleaseCalls :
          LET result == Released(q).result IN
          /\ result /= "EscrowNotActive"
          /\ result \in {"Ok", "EscrowNotFound", "NotAuthorized", "InsufficientFunds"}
          /\ (q.i \in DOMAIN escrows /\ ~escrows[q.i].is_active)
                 => result = "NotAuthorized"

\* a released record whose arbiter and a non-arbiter both call again, while
\* the other two errors are also possible in the same state
C17_Witness ==
    \E i \in DOMAIN escrows :
        /\ ~escrows[i].is_active
        /\ \E c \in Users : c /= escrows[i].arbiter
        /\ \A c \in Users : \E q \in ReleaseCalls : q.c = c /\ q.i = i
        /\ "EscrowNotFound" \in Results
        /\ "InsufficientFunds" \in Results

\* ======================================================================
\* C18: admin is the constructing caller and no operation changes it; and
\* it gates nothing: from the current state with any other admin value,
\* every call gives the same result, ledger calls, events and return value
\* and leaves the same records, counter and balances, so two registries
\* that differ only in admin stay in step call by call; a caller who is the
\* admin but not the arbiter never gets Ok from release_funds.
\* ======================================================================
WithAdmin(a) == [Now EXCEPT !.admin = a]

SameButAdmin(r1, r2) ==
    /\ r1.result = r2.result /\ r1.xfers = r2.xfers
    /\ r1.evs = r2.evs /\ r1.ret = r2.ret
    /\ r1.st.escrows = r2.st.escrows
    /\ r1.st.next_escrow_id = r2.st.next_escrow_id
    /\ r1.st.balance = r2.st.balance

C18_AdminGatesNothing ==
    /\ admin = Deployer
    /\ \A q \in ReleaseCalls :
          (q.c = admin /\ q.i \in DOMAIN escrows /\ q.c /= escrows[q.i].arbiter)
              => Released(q).result /= "Ok"
    /\ \A a \in Users \ {admin} :
          /\ \A q \in CreateCalls :
                LET r == create_escrow(WithAdmin(a), q.c, q.b, q.a, q.v) IN
                SameButAdmin(r, Created(q)) /\ r.st.admin = a
          /\ \A q \in ReleaseCalls :
                LET r == release_funds(WithAdmin(a), q.c, q.i, q.ok) IN
                /\ SameButAdmin(r, Released(q)) /\ r.st.admin = a
                /\ (q.c = a /\ q.i \in DOMAIN escrows /\ q.c /= escrows[q.i].arbiter)
                       => r.result /= "Ok"
          /\ \A c \in Users, i \in Ids :
                LET r == get_escrow_by(WithAdmin(a), c, i) IN
                SameButAdmin(r, get_escrow_by(Now, c, i)) /\ r.st.admin = a

\* the admin calls release_funds on a funded active record whose arbiter is
\* someone else, after an earlier release has gone through
C18_Witness ==
    \E i, j \in DOMAIN escrows :
        /\ escrows[i].is_active /\ escrows[i].amount > 0
        /\ escrows[i].arbiter /= admin
        /\ balance[Registry] >= escrows[i].amount
        /\ release_funds(Now, admin, i, TRUE).result = "NotAuthorized"
        /\ succ[j] = 1

\* ======================================================================
\* C20: over a ledger that refuses a transfer only when the registry's
\* balance is below the amount asked, no release_funds call returns
\* InsufficientFunds, and in every reachable state a release_funds by the
\* arbiter of an active record returns Ok, whatever was created or released
\* before.
\* ======================================================================
StrictReleaseCalls ==
    {q \in [c : Users, i : Ids, ok : BOOLEAN] :
        FeasibleStrict(Now, release_funds(Now, q.c, q.i, q.ok))}

C20_StrictLedgerAlwaysReleasable ==
    /\ \A q \in StrictReleaseCalls : Released(q).result /= "InsufficientFunds"
    /\ \A i \in DOMAIN escrows :
          escrows[i].is_active =>
              /\ \E q \in StrictReleaseCalls : q.i = i /\ q.c = escrows[i].arbiter
              /\ \A q \in StrictReleaseCalls :
                    (q.i = i /\ q.c = escrows[i].arbiter) => Released(q).result = "Ok"

\* a funded active record that is still releasable after another funded
\* record, created before it, was released
C20_Witness ==
    \E i, j \in DOMAIN escrows :
        /\ j < i
        /\ succ[j] = 1 /\ paid[j] > 0
        /\ escrows[i].is_active /\ escrows[i].amount > 0
        /\ release_funds(Now, escrows[i].arbiter, i, TRUE).result = "Ok"
        /\ FeasibleStrict(Now, release_funds(Now, escrows[i].arbiter, i, TRUE))

\* ======================================================================
\* C15: inside a release_funds call the statements run in the order read,
\* checks, ledger transfer, deactivation, event. A call that ends with
\* EscrowNotFound or NotAuthorized has made no ledger call; a call whose
\* checks passed makes exactly one, and nothing else moves the registry's
\* balance out; the record is marked inactive only by a call whose single
\* ledger call answered success, and the event comes only after that.
\* ======================================================================
C15_FrameOrder(f) ==
    LET i == f.escrow_id IN
    /\ f.pc \in {"transfer", "write", "emit", "done"}
    /\ Len(f.ledger) <= 1
    /\ f.pc = "transfer" =>
          /\ f.ledger = <<>> /\ f.found /= <<>> /\ f.found[1].is_active
          /\ escrows[i] = f.found[1]
    /\ f.pc = "write" =>
          /\ f.ledger = <<TRUE>> /\ escrows[i] = f.found[1]
          /\ paid[i] = f.found[1].amount /\ emitted[i].released = <<>>
    /\ f.pc = "emit" =>
          /\ f.ledger = <<TRUE>> /\ ~escrows[i].is_active
          /\ emitted[i].released = <<>>
    /\ f.pc = "done" =>
          /\ f.result \in {"Ok", "EscrowNotFound", "NotAuthorized", "InsufficientFunds"}
          /\ f.result = "EscrowNotFound" => f.ledger = <<>> /\ f.found = <<>>
          /\ f.result = "NotAuthorized" => f.ledger = <<>> /\ escrows[i] = f.found[1]
          /\ f.result = "InsufficientFunds" =>
                f.ledger = <<FALSE>> /\ escrows[i] = f.found[1] /\ escrows[i].is_active
          /\ f.result = "Ok" =>
                /\ f.ledger = <<TRUE>> /\ ~escrows[i].is_active
                /\ emitted[i].released = <<f.found[1].amount>>

C15_FramesInOrder == \A k \in 1..Len(stack) : C15_FrameOrder(stack[k])

C15_Step ==
    /\ \A i \in DOMAIN escrows :
          (escrows[i].is_active /\ ~escrows'[i].is_active) =>
              /\ stack /= <<>> /\ Top.escrow_id = i
              /\ Top.pc = "write" /\ Top.ledger = <<TRUE>>
    /\ balance'[Registry] < balance[Registry] =>
          /\ stack /= <<>> /\ Top.pc = "transfer" /\ Top.ledger = <<>>
          /\ stack'[Len(stack)].ledger = <<TRUE>>
    /\ (stack /= <<>> /\ Len(stack') = Len(stack)) =>
          <<Top.pc, stack'[Len(stack)].pc>> \in
              {<<"transfer", "write">>, <<"transfer", "done">>,
               <<"write", "emit">>, <<"emit", "done">>}
    /\ C15_FramesInOrder'

C15_StepOrder == [][C15_Step]_vars

\* a call that went through every statement and is about to return Ok,
\* with a positive amount moved
C15_Witness ==
    /\ Len(stack) = 1
    /\ Top.pc = "done" /\ Top.result = "Ok" /\ Top.ledger = <<TRUE>>
    /\ Top.found[1].amount > 0
    /\ ~escrows[Top.escrow_id].is_active
    /\ paid[Top.escrow_id] = Top.found[1].amount

\* ======================================================================
\* C19 (as stated): even when a second release_funds(id) by the arbiter
\* begins between the successful ledger transfer of a first one and its
\* write of is_active = false, the beneficiary is paid the escrowed amount
\* at most once.
\* ======================================================================
C19_AtMostOnceEvenReentrant ==
    \A i \in DOMAIN escrows : paid[i] <= escrows[i].amount

\* ======================================================================
\* C19 (amended): the second call finds the record still active, passes the
\* checks and, when the ledger accepts, the amount is transferred again:
\* every payment for an identifier is the one ledger call of a release_funds
\* for it and pays exactly the amount, so the beneficiary is paid the amount
\* once per call whose transfer succeeded; and a payment after the first is
\* made only by a call begun while an earlier call for the same identifier
\* was between its transfer and its write.
\* ======================================================================
C19_Step ==
    \A i \in Ids :
        paid'[i] /= paid[i] =>
            /\ stack /= <<>> /\ Top.escrow_id = i
            /\ Top.pc = "transfer" /\ Top.ledger = <<>>
            /\ stack'[Len(stack)].ledger = <<TRUE>>
            /\ paid'[i] = paid[i] + escrows[i].amount
            /\ paid[i] > 0 =>
                  \E k \in 1..(Len(stack) - 1) :
                      stack[k].escrow_id = i /\ stack[k].pc = "write"

C19_PaidOncePerOverlappingCall == [][C19_Step]_vars

\* both calls have returned Ok and the beneficiary holds twice the amount
C19_Witness ==
    \E i \in DOMAIN escrows :
        /\ stack = <<>>
        /\ escrows[i].amount > 0
        /\ succ[i] = 2
        /\ paid[i] = 2 * escrows[i].amount
        /\ ~escrows[i].is_active

====
